---------------------------- MODULE Spec2Model ----------------------------
(***************************************************************************)
(* Model of src/data_ingestion.py: the two frontier crawlers               *)
(* (ReadTheDocsIngester, WebsiteIngester), the repository fetcher          *)
(* (GitHubIngester) and the text pipeline that fills Document.content.     *)
(*                                                                         *)
(* Three specifications share the module:                                  *)
(*   Spec / FairSpec  one crawler instance and its get_all_docs calls      *)
(*   SpecGitHub       one GitHubIngester.get_all_docs call                 *)
(*   SpecContent      the content of one Document, per producing method    *)
(***************************************************************************)
EXTENDS Integers, Sequences, FiniteSets, TLC

(***************************************************************************)
(* Bounds of the model.                                                    *)
(***************************************************************************)
MaxPagesBound == 4     \* max_pages ranges over 0..MaxPagesBound
MaxCrawls     == 2     \* get_all_docs calls made on one instance
MaxLinks      == 3     \* <a href> targets on one page

(***************************************************************************)
(* Urls.  A url is what urlparse sees of it: its network location, its     *)
(* path and whether it carries a '#'.                                      *)
(***************************************************************************)
Home      == [netloc |-> "docs.a.org", path |-> "",       frag |-> FALSE]
Guide     == [netloc |-> "docs.a.org", path |-> "guide",  frag |-> FALSE]
Search    == [netloc |-> "docs.a.org", path |-> "search", frag |-> FALSE]
GuideFrag == [netloc |-> "docs.a.org", path |-> "guide",  frag |-> TRUE]
Ext       == [netloc |-> "b.org",      path |-> "",       frag |-> FALSE]

Urls     == {Home, Guide, Search, GuideFrag, Ext}
SeedUrls == {Home, Ext}

\* the allowed_domains arguments; {} stands for the default None, which
\* __init__ replaces by the seed's network location
AllowLists == {{}, {"docs.a.org"}, {"b.org", "mirror.a.org"}}
Variants == {"readthedocs", "website"}

\* the substrings _find_doc_links refuses: 'search', 'genindex', '_static'
DenyWords == {"search", "genindex", "_static"}

\* the href sets one page can carry
LinkSets == {L \in SUBSET Urls : Cardinality(L) <= MaxLinks}

\* list(set(links)): the order of a set's elements is not fixed by the code
Orderings(S) ==
    {q \in [1..Cardinality(S) -> S] :
        \A i, j \in 1..Cardinality(S) : i # j => q[i] # q[j]}

VARIABLES
    variant,          \* which ingester class the instance is
    start_url,        \* self.start_url (self.base_url for the doc-site class)
    allowed_domains,  \* self.allowed_domains
    max_pages,        \* self.max_pages
    visited_urls,     \* self.visited_urls
    documents,        \* local list of get_all_docs (a Document is its url here)
    to_visit,         \* local queue of get_all_docs
    pc,               \* "idle", "running", "done", "raised"
    calls,            \* get_all_docs calls started on the instance
    site,             \* the hrefs of each page read so far (the site is fixed)
    content_fetches,  \* per url: requests.get by _scrape_page in this call
    link_fetches,     \* per url: requests.get by _find_*links in this call
    sleeps,           \* per url: time.sleep(0.5) runs in this call
    errors,           \* urls whose _scrape_page raised in this call
    link_errors,      \* urls whose link fetch raised in this call
    visited_before,   \* self.visited_urls as the current call found it
    returned          \* per finished call: what it returned and its errors

crawlVars == <<variant, start_url, allowed_domains, max_pages, visited_urls,
               documents, to_visit, pc, calls, site, content_fetches,
               link_fetches, sleeps, errors, link_errors,
               visited_before, returned>>

(***************************************************************************)
(* The repository of the GitHubIngester: the tree the contents API lists.  *)
(***************************************************************************)
Root == "docs"

File(name, path) == [type |-> "file", name |-> name, path |-> path]
Dir(name, path)  == [type |-> "dir",  name |-> name, path |-> path]

\* response.json() of a listing call that succeeds
Items(path) ==
    CASE path = "docs" ->
           << File("a.md", "docs/a.md"), Dir("api", "docs/api"),
              File("notes.txt", "docs/notes.txt"), Dir("img", "docs/img"),
              File("z.rst", "docs/z.rst") >>
      [] path = "docs/api" ->
           << File("b.md", "docs/api/b.md"), Dir("v1", "docs/api/v1"),
              File("c.markdown", "docs/api/c.markdown") >>
      [] path = "docs/api/v1" ->
           << File("d.md", "docs/api/v1/d.md") >>
      [] path = "docs/img" ->
           << File("logo.png", "docs/img/logo.png"),
              File("e.rst", "docs/img/e.rst") >>

Dirs == {"docs", "docs/api", "docs/api/v1", "docs/img"}

\* item['name'].endswith(('.md', '.markdown', '.rst'))
DocNames == {"a.md", "z.rst", "b.md", "c.markdown", "d.md", "e.rst"}

IsDocFile(item) == item.type = "file" /\ item.name \in DocNames

DocFiles ==
    UNION {{Items(d)[i].path :
              i \in {j \in DOMAIN Items(d) : IsDocFile(Items(d)[j])}} : d \in Dirs}

VARIABLES
    readme,        \* how the readme calls answer: "ok", "api_error", "download_error"
    listing,       \* per directory: "ok", "not_found", "error"
    download,      \* per documentation file: "ok", "error"
    gh_pc,         \* position in GitHubIngester.get_all_docs
    gh_documents,  \* local list of GitHubIngester.get_all_docs
    docs_files     \* what the _get_docs_directory() call returned

ghVars == <<readme, listing, download, gh_pc, gh_documents, docs_files>>

(***************************************************************************)
(* The text of one Document.  Fetched text is a sequence of tokens: an     *)
(* ordinary character, a newline, or (in markup) a tag that ends one text  *)
(* node and starts the next.                                               *)
(***************************************************************************)
MaxLen == 7     \* tokens in one fetched text

Ch  == "x"
NL  == "\n"
Tag == "<>"
Tokens == {Ch, NL, Tag}

Texts == UNION {[1..n -> Tokens] : n \in 0..MaxLen}

Producers == {"readthedocs", "website", "readme", "docs_file"}

VARIABLES
    producer,    \* the method that builds the Document
    fetched,     \* the text the request returned (for a page: of the content root)
    has_root,    \* a page: whether a content root or a body was found
    doc          \* the outcome: nothing yet, a Document's content, or an exception

txtVars == <<producer, fetched, has_root, doc>>

vars == <<crawlVars, ghVars, txtVars>>

CrawlUnused ==
    /\ variant = "website" /\ start_url = Home /\ allowed_domains = {}
    /\ max_pages = 0 /\ visited_urls = {} /\ documents = <<>>
    /\ to_visit = <<>> /\ pc = "idle" /\ calls = 0
    /\ site = [u \in {} |-> {}]
    /\ content_fetches = [u \in Urls |-> 0]
    /\ link_fetches = [u \in Urls |-> 0]
    /\ sleeps = [u \in Urls |-> 0]
    /\ errors = {} /\ link_errors = {} /\ visited_before = {}
    /\ returned = <<>>

GitHubUnused ==
    /\ readme = "ok"
    /\ listing = [d \in Dirs |-> "ok"]
    /\ download = [f \in DocFiles |-> "ok"]
    /\ gh_pc = "idle" /\ gh_documents = <<>> /\ docs_files = <<>>

ContentUnused ==
    /\ producer = "website" /\ fetched = <<>> /\ has_root = TRUE
    /\ doc = [state |-> "none"]

Zero == [u \in Urls |-> 0]

(***************************************************************************)
(* Pieces of the loop body.                                                *)
(***************************************************************************)
\* faulty variants of the loop condition: the budget test off by one, either way
LoopGuardInclusive == to_visit # <<>> /\ Len(documents) <= max_pages

LoopGuardEarly == to_visit # <<>> /\ Len(documents) + 1 < max_pages

\* while to_visit and len(documents) < self.max_pages
LoopGuard == to_visit # <<>> /\ Len(documents) < max_pages

\* faulty variant: the visited test is lost
AlreadyVisitedNever(url) == FALSE

\* if url in self.visited_urls: continue
AlreadyVisited(url) == url \in visited_urls

\* WebsiteIngester only: urlparse(url).netloc not in self.allowed_domains
DomainAllowed(url) ==
    variant = "website" => url.netloc \in allowed_domains

\* faulty variant: the link filter lets every network location through
LinkInScopeAny(u) == TRUE

\* the netloc test of the link filters
LinkInScope(u) ==
    IF variant = "website"
    THEN u.netloc \in allowed_domains
    ELSE u.netloc = start_url.netloc

\* '#' not in full_url, and for the doc-site class the deny-list
LinkKept(u) ==
    /\ ~u.frag
    /\ variant = "readthedocs" => u.path \notin DenyWords

\* _find_doc_links / _find_links on a page that carries the hrefs L
find_links(L) == {u \in L : LinkInScope(u) /\ LinkKept(u)}

\* faulty variant: the exception of _scrape_page leaves get_all_docs
AfterScrapeErrorRaised == "raised"

\* where control goes when _scrape_page raises: the except clause of the loop
AfterScrapeError == "running"

(***************************************************************************)
(* __init__                                                                *)
(***************************************************************************)
Init ==
    /\ variant \in Variants
    /\ start_url \in SeedUrls
    /\ max_pages \in 0..MaxPagesBound
    /\ \E ad \in AllowLists :
          allowed_domains =
             IF variant = "website"
             THEN (IF ad = {} THEN {start_url.netloc} ELSE ad)
             ELSE {}
    /\ visited_urls = {}
    /\ documents = <<>>
    /\ to_visit = <<>>
    /\ pc = "idle"
    /\ calls = 0
    /\ site = [u \in {} |-> {}]
    /\ content_fetches = Zero
    /\ link_fetches = Zero
    /\ sleeps = Zero
    /\ errors = {}
    /\ link_errors = {}
    /\ visited_before = {}
    /\ returned = <<>>
    /\ GitHubUnused
    /\ ContentUnused

params == <<variant, start_url, allowed_domains, max_pages>>

(***************************************************************************)
(* get_all_docs                                                            *)
(***************************************************************************)
Call ==
    /\ pc \in {"idle", "done"}
    /\ calls < MaxCrawls
    /\ calls' = calls + 1
    /\ documents' = <<>>
    /\ to_visit' = <<start_url>>
    /\ pc' = "running"
    /\ content_fetches' = Zero
    /\ link_fetches' = Zero
    /\ sleeps' = Zero
    /\ errors' = {}
    /\ link_errors' = {}
    /\ visited_before' = visited_urls
    /\ UNCHANGED <<ghVars, txtVars>>
    /\ UNCHANGED <<params, visited_urls, site, returned>>

SkipVisited ==
    /\ pc = "running" /\ LoopGuard
    /\ LET url == Head(to_visit) IN
        /\ AlreadyVisited(url)
        /\ to_visit' = Tail(to_visit)
    /\ UNCHANGED <<ghVars, txtVars>>
    /\ UNCHANGED <<params, visited_urls, documents, pc, calls, site,
                   content_fetches, link_fetches, sleeps, errors,
                   link_errors, visited_before, returned>>

SkipDomain ==
    /\ pc = "running" /\ LoopGuard
    /\ LET url == Head(to_visit) IN
        /\ ~AlreadyVisited(url)
        /\ ~DomainAllowed(url)
        /\ to_visit' = Tail(to_visit)
    /\ UNCHANGED <<ghVars, txtVars>>
    /\ UNCHANGED <<params, visited_urls, documents, pc, calls, site,
                   content_fetches, link_fetches, sleeps, errors,
                   link_errors, visited_before, returned>>

\* _scrape_page raises (timeout, connection, status, parse): no sleep
ScrapeFails ==
    /\ pc = "running" /\ LoopGuard
    /\ LET url == Head(to_visit) IN
        /\ ~AlreadyVisited(url)
        /\ DomainAllowed(url)
        /\ visited_urls' = visited_urls \cup {url}
        /\ content_fetches' = [content_fetches EXCEPT ![url] = @ + 1]
        /\ errors' = errors \cup {url}
        /\ to_visit' = Tail(to_visit)
        /\ pc' = AfterScrapeError
    /\ UNCHANGED <<ghVars, txtVars>>
    /\ UNCHANGED <<params, documents, calls, site, link_fetches, sleeps,
                   link_errors, visited_before, returned>>

\* _scrape_page returns a Document, the link fetch raises: no new urls
ScrapeOkLinksFail ==
    /\ pc = "running" /\ LoopGuard
    /\ LET url == Head(to_visit) IN
        /\ ~AlreadyVisited(url)
        /\ DomainAllowed(url)
        /\ visited_urls' = visited_urls \cup {url}
        /\ content_fetches' = [content_fetches EXCEPT ![url] = @ + 1]
        /\ documents' = Append(documents, url)
        /\ link_fetches' = [link_fetches EXCEPT ![url] = @ + 1]
        /\ to_visit' = Tail(to_visit)
        /\ sleeps' = [sleeps EXCEPT ![url] = @ + 1]
        /\ link_errors' = link_errors \cup {url}
    /\ UNCHANGED <<ghVars, txtVars>>
    /\ UNCHANGED <<params, pc, calls, site, errors, visited_before, returned>>

\* _scrape_page returns a Document and the links of the page are queued
ScrapeOk ==
    /\ pc = "running" /\ LoopGuard
    /\ LET url == Head(to_visit) IN
        /\ ~AlreadyVisited(url)
        /\ DomainAllowed(url)
        /\ visited_urls' = visited_urls \cup {url}
        /\ content_fetches' = [content_fetches EXCEPT ![url] = @ + 1]
        /\ documents' = Append(documents, url)
        /\ link_fetches' = [link_fetches EXCEPT ![url] = @ + 1]
        /\ \E L \in LinkSets :
            /\ url \in DOMAIN site => L = site[url]
            /\ site' = [u \in DOMAIN site \cup {url} |->
                            IF u = url THEN L ELSE site[u]]
            /\ \E new_urls \in Orderings(find_links(L)) :
                 to_visit' = Tail(to_visit) \o
                     SelectSeq(new_urls, LAMBDA u : u \notin visited_urls')
        /\ sleeps' = [sleeps EXCEPT ![url] = @ + 1]
    /\ UNCHANGED <<ghVars, txtVars>>
    /\ UNCHANGED <<params, pc, calls, errors, link_errors, visited_before,
                   returned>>

Return ==
    /\ pc = "running" /\ ~LoopGuard
    /\ pc' = "done"
    /\ returned' = Append(returned, [docs |-> documents,
                                     errors |-> errors \cup link_errors])
    /\ UNCHANGED <<ghVars, txtVars>>
    /\ UNCHANGED <<params, visited_urls, documents, to_visit, calls, site,
                   content_fetches, link_fetches, sleeps, errors, link_errors,
                   visited_before>>

Step == SkipVisited \/ SkipDomain \/ ScrapeFails \/ ScrapeOkLinksFail
           \/ ScrapeOk \/ Return

Next ==
    \/ Call
    \/ SkipVisited
    \/ SkipDomain
    \/ ScrapeFails
    \/ ScrapeOkLinksFail
    \/ ScrapeOk
    \/ Return

Spec == Init /\ [][Next]_vars

\* the interpreter runs the loop of a started call to its end
FairSpec == Spec /\ WF_vars(Step)

(***************************************************************************)
(* GitHubIngester                                                          *)
(***************************************************************************)
Returned(value) == [value |-> value, raised |-> FALSE]

\* faulty variants: the except clause is missing and the exception goes up
ReadmeCatchMissing == [value |-> <<>>, raised |-> TRUE]

DirCatchMissing(so_far) == [value |-> <<>>, raised |-> TRUE]

\* except Exception of _get_readme: return None
ReadmeCatch == Returned(<<>>)

\* except Exception of _get_docs_directory: falls to `return documents`
DirCatch(so_far) == Returned(so_far)

\* _get_readme: a one-element sequence for the Document, <<>> for None
get_readme ==
    IF readme = "ok"
    THEN Returned(<< [type |-> "readme", path |-> "README"] >>)
    ELSE ReadmeCatch

\* _get_wiki_pages: the body is `pass`
get_wiki_pages == Returned(<<>>)

RECURSIVE get_docs_directory(_), walk_items(_, _, _)

\* the for loop of _get_docs_directory from item i on, `so_far` collected
walk_items(path, i, so_far) ==
    IF i > Len(Items(path))
    THEN Returned(so_far)
    ELSE LET item == Items(path)[i] IN
         IF IsDocFile(item)
         THEN IF download[item.path] = "error"
              THEN DirCatch(so_far)
              ELSE walk_items(path, i + 1,
                      Append(so_far, [type |-> "docs_file", path |-> item.path]))
         ELSE IF item.type = "dir"
         THEN LET sub == get_docs_directory(item.path) IN
              IF sub.raised
              THEN DirCatch(so_far)
              ELSE walk_items(path, i + 1, so_far \o sub.value)
         ELSE walk_items(path, i + 1, so_far)

\* _get_docs_directory(path)
get_docs_directory(path) ==
    IF listing[path] = "not_found"
    THEN Returned(<<>>)
    ELSE IF listing[path] = "error"
    THEN DirCatch(<<>>)
    ELSE walk_items(path, 1, <<>>)

GitHubInit ==
    /\ readme \in {"ok", "api_error", "download_error"}
    /\ listing \in [Dirs -> {"ok", "not_found", "error"}]
    /\ download \in [DocFiles -> {"ok", "error"}]
    /\ gh_pc = "idle"
    /\ gh_documents = <<>>
    /\ docs_files = <<>>
    /\ CrawlUnused
    /\ ContentUnused

repo == <<readme, listing, download>>

\* get_all_docs is entered: documents = []
GitHubCall ==
    /\ gh_pc = "idle"
    /\ gh_documents' = <<>>
    /\ gh_pc' = "readme"
    /\ UNCHANGED <<repo, docs_files, crawlVars, txtVars>>

\* readme = self._get_readme(); if readme: documents.append(readme)
GetReadme ==
    /\ gh_pc = "readme"
    /\ LET r == get_readme IN
        IF r.raised
        THEN gh_pc' = "raised" /\ UNCHANGED gh_documents
        ELSE gh_pc' = "wiki" /\ gh_documents' = gh_documents \o r.value
    /\ UNCHANGED <<repo, docs_files, crawlVars, txtVars>>

\* wiki_pages = self._get_wiki_pages(); documents.extend(wiki_pages)
GetWikiPages ==
    /\ gh_pc = "wiki"
    /\ gh_documents' = gh_documents \o get_wiki_pages.value
    /\ gh_pc' = "docs"
    /\ UNCHANGED <<repo, docs_files, crawlVars, txtVars>>

\* docs_files = self._get_docs_directory(); documents.extend(docs_files)
GetDocsDirectory ==
    /\ gh_pc = "docs"
    /\ LET r == get_docs_directory(Root) IN
        IF r.raised
        THEN gh_pc' = "raised" /\ UNCHANGED <<gh_documents, docs_files>>
        ELSE /\ docs_files' = r.value
             /\ gh_documents' = gh_documents \o r.value
             /\ gh_pc' = "returned"
    /\ UNCHANGED <<repo, crawlVars, txtVars>>

GitHubNext ==
    \/ GitHubCall
    \/ GetReadme
    \/ GetWikiPages
    \/ GetDocsDirectory

SpecGitHub == GitHubInit /\ [][GitHubNext]_vars

(***************************************************************************)
(* Properties of the crawlers.                                             *)
(***************************************************************************)
Range(q) == {q[i] : i \in DOMAIN q}

Fetched(u) == content_fetches[u] > 0 \/ link_fetches[u] > 0

\* the scope the claims speak of
InScope(u) ==
    IF variant = "website"
    THEN u.netloc \in allowed_domains
    ELSE u.netloc = start_url.netloc

\* C1: at every point of a crawl the documents collected so far number at
\* most max_pages, and so does every returned list.
C1_WithinBudget ==
    /\ Len(documents) <= max_pages
    /\ \A i \in DOMAIN returned : Len(returned[i].docs) <= max_pages

\* the budget stopped a crawl that still had urls queued
C1_Witness ==
    /\ pc = "done"
    /\ max_pages \in 1..2
    /\ Len(documents) = max_pages
    /\ to_visit # <<>>

\* C2: within one crawl no url is fetched for content twice and no two
\* documents carry the same url.
C2_NoRefetchNoDuplicate ==
    /\ \A u \in Urls : content_fetches[u] <= 1
    /\ \A i, j \in DOMAIN documents : i # j => documents[i] # documents[j]

\* a url found on several pages sits in the queue twice, one page done
C2_Witness ==
    /\ pc = "running"
    /\ Len(documents) >= 2
    /\ \E i, j \in DOMAIN to_visit : i < j /\ to_visit[i] = to_visit[j]

\* the site of the three-link scenario: the seed carries exactly two links
\* to other in-scope pages and one to an out-of-scope page, the pages carry
\* links to nothing else, nothing failed and the budget leaves room
ScenarioSite ==
    /\ start_url \in DOMAIN site
    /\ Cardinality(site[start_url]) = 3
    /\ start_url \notin site[start_url]
    /\ \A u \in site[start_url] : ~u.frag
    /\ Cardinality({u \in site[start_url] : InScope(u)}) = 2
    /\ \A u \in DOMAIN site \ {start_url} :
          site[u] \subseteq site[start_url] \cup {start_url}
    /\ errors = {} /\ link_errors = {}
    /\ max_pages >= 3

ScopeRespected ==
    /\ \A u \in Urls : Fetched(u) => InScope(u)
    /\ \A i \in DOMAIN documents : InScope(documents[i])

\* C3 as stated: nothing out of scope is fetched or emitted, and the
\* three-link scenario returns exactly 3 documents.
C3_AsStated ==
    /\ ScopeRespected
    /\ (pc = "done" /\ ScenarioSite) => Len(documents) = 3

\* C3 amended: nothing out of scope is fetched or emitted; the three-link
\* scenario returns the seed and one document per linked url that passes
\* the link filter when the call found the seed unvisited, and nothing when
\* the seed was in visited_urls already.
C3_Amended ==
    /\ ScopeRespected
    /\ (pc = "done" /\ ScenarioSite) =>
          Len(documents) =
             IF start_url \in visited_before
             THEN 0
             ELSE 1 + Cardinality(find_links(site[start_url]))

\* the scenario ran and returned 3 documents, the outside link unfetched
C3_Witness ==
    /\ pc = "done"
    /\ ScenarioSite
    /\ Len(documents) = 3
    /\ \E u \in site[start_url] : ~InScope(u) /\ ~Fetched(u)

\* C4: a url whose scrape failed yields no document, stays visited, is
\* fetched once only, nothing is raised, and the loop runs on until the
\* queue is empty or the budget is reached.
C4_FailureTolerated ==
    /\ \A u \in errors :
          /\ u \notin Range(documents)
          /\ u \in visited_urls
          /\ content_fetches[u] = 1
    /\ pc # "raised"
    /\ (pc = "done" /\ errors # {}) =>
          (to_visit = <<>> \/ Len(documents) >= max_pages)

\* after a failed scrape the loop is about to fetch the next queued url
C4_Witness ==
    /\ pc = "running"
    /\ errors # {}
    /\ LoopGuard
    /\ ~AlreadyVisited(Head(to_visit))
    /\ DomainAllowed(Head(to_visit))

\* C8 as stated: every call starts with an empty visited set, fetches the
\* seed, and a second call that met no failure returns the documents of a
\* first call that met none.
C8_AsStated ==
    /\ calls >= 1 => visited_before = {}
    /\ (pc = "done" /\ DomainAllowed(start_url) /\ max_pages > 0) =>
          content_fetches[start_url] = 1
    /\ (Len(returned) = 2 /\ returned[1].errors = {} /\ returned[2].errors = {})
          => Range(returned[2].docs) = Range(returned[1].docs)

\* C9 as stated: the delay runs once per url whose content fetch was
\* attempted, failed or not, and never for another url.
C9_AsStated ==
    \A u \in Urls : sleeps[u] = content_fetches[u]

\* C10: a running crawl reaches Done; in Done the queue is empty or the
\* budget is reached, and what is left in the queue was not fetched.
DoneCondition ==
    pc = "done" =>
       /\ to_visit = <<>> \/ Len(documents) = max_pages
       /\ \A u \in Range(to_visit) \ visited_urls : ~Fetched(u)

C10_Terminates ==
    /\ []DoneCondition
    /\ (pc = "running") ~> (pc = "done")

\* a crawl over a cycle of two pages came to its end
C10_Witness ==
    /\ pc = "done"
    /\ \E u, v \in DOMAIN site :
          /\ u # v
          /\ v \in site[u] /\ u \in site[v]
          /\ {u, v} \subseteq Range(documents)

(***************************************************************************)
(* Properties of the repository fetcher.                                   *)
(***************************************************************************)
ParentOf(p) == CHOOSE d \in Dirs : \E i \in DOMAIN Items(d) : Items(d)[i].path = p

IndexOf(p) == CHOOSE i \in DOMAIN Items(ParentOf(p)) : Items(ParentOf(p))[i].path = p

RECURSIVE Reached(_), InSubtree(_, _)

\* the descent gets to entry p: every directory above it listed, and no
\* download before it in those directories failed
Reached(p) ==
    \/ p = Root
    \/ /\ Reached(ParentOf(p))
       /\ listing[ParentOf(p)] = "ok"
       /\ \A j \in 1..(IndexOf(p) - 1) :
             IsDocFile(Items(ParentOf(p))[j]) =>
                download[Items(ParentOf(p))[j].path] = "ok"

InSubtree(p, d) == p = d \/ (p # Root /\ InSubtree(ParentOf(p), d))

Gathered(f) == Reached(f) /\ download[f] = "ok"

DocOf(f) == [type |-> "docs_file", path |-> f]

\* C5: when the readme call fails get_all_docs raises nothing and returns
\* exactly what the documentation-directory step produced, in its order.
C5_ReadmeFailureAbsorbed ==
    readme # "ok" =>
       /\ gh_pc # "raised"
       /\ gh_pc = "returned" =>
             /\ gh_documents = docs_files
             /\ \A i \in DOMAIN gh_documents : gh_documents[i].type = "docs_file"
             /\ Range(gh_documents) = {DocOf(f) : f \in {g \in DocFiles : Gathered(g)}}

\* the readme call failed and the call returned files of the docs step
C5_Witness ==
    /\ gh_pc = "returned"
    /\ readme = "api_error"
    /\ Len(gh_documents) >= 2

\* C6: a reached directory whose listing is not-found or fails contributes
\* nothing and raises nothing, and the root call still returns every
\* document gathered outside that directory's subtree.
C6_DirectoryFailureLocal ==
    /\ gh_pc # "raised"
    /\ gh_pc = "returned" =>
          \A d \in Dirs :
             (Reached(d) /\ listing[d] # "ok") =>
                /\ get_docs_directory(d) = Returned(<<>>)
                /\ \A f \in DocFiles :
                      (~InSubtree(f, d) /\ Gathered(f)) =>
                          DocOf(f) \in Range(docs_files)

\* docs/api failed to list; the entries after it in docs/ were still taken
C6_Witness ==
    /\ gh_pc = "returned"
    /\ Reached("docs/api")
    /\ listing["docs/api"] = "error"
    /\ DocOf("docs/img/e.rst") \in Range(docs_files)
    /\ DocOf("docs/z.rst") \in Range(docs_files)

(***************************************************************************)
(* Document.content                                                        *)
(***************************************************************************)
RECURSIVE LStrip(_), RStrip(_), SplitNodes(_, _), Join(_), LeadingNL(_),
          ReSub(_, _)

LStrip(s) == IF s # <<>> /\ Head(s) = NL THEN LStrip(Tail(s)) ELSE s

RStrip(s) ==
    IF s # <<>> /\ s[Len(s)] = NL THEN RStrip(SubSeq(s, 1, Len(s) - 1)) ELSE s

\* str.strip() of one text node
Strip(s) == RStrip(LStrip(s))

\* the text nodes of a subtree, in document order
SplitNodes(markup, node) ==
    IF markup = <<>> THEN << node >>
    ELSE IF Head(markup) = Tag
         THEN << node >> \o SplitNodes(Tail(markup), <<>>)
         ELSE SplitNodes(Tail(markup), Append(node, Head(markup)))

Join(nodes) ==
    IF nodes = <<>> THEN <<>>
    ELSE IF Len(nodes) = 1 THEN nodes[1]
    ELSE nodes[1] \o << NL >> \o Join(Tail(nodes))

\* main_content.get_text(separator='\n', strip=True)
get_text(markup) ==
    LET nodes    == SplitNodes(markup, <<>>)
        stripped == [i \in DOMAIN nodes |-> Strip(nodes[i])]
    IN  Join(SelectSeq(stripped, LAMBDA n : n # <<>>))

LeadingNL(s) == IF s # <<>> /\ Head(s) = NL THEN 1 + LeadingNL(Tail(s)) ELSE 0

\* re.sub(r'\n{least,}', '\n\n', s): leftmost, greedy, non-overlapping
ReSub(s, least) ==
    IF s = <<>> THEN <<>>
    ELSE IF LeadingNL(s) >= least
         THEN << NL, NL >> \o ReSub(SubSeq(s, LeadingNL(s) + 1, Len(s)), least)
         ELSE << Head(s) >> \o ReSub(Tail(s), least)

\* faulty variant: the pattern asks for four newlines
collapse_newlines_from4(s) == ReSub(s, 4)

\* content = re.sub(r'\n{3,}', '\n\n', content)
collapse_newlines(s) == ReSub(s, 3)

Produced(content) == [state |-> "document", content |-> content]

\* ReadTheDocsIngester._scrape_page: None.get_text raises without a root
scrape_page_readthedocs(markup, root) ==
    IF root
    THEN Produced(collapse_newlines(get_text(markup)))
    ELSE [state |-> "raised"]

\* WebsiteIngester._scrape_page: '' without a root
scrape_page_website(markup, root) ==
    Produced(collapse_newlines(IF root THEN get_text(markup) ELSE <<>>))

\* GitHubIngester: content = requests.get(download_url).text
download_text(text) == Produced(text)

ContentInit ==
    /\ producer \in Producers
    /\ fetched \in Texts
    /\ has_root \in BOOLEAN
    /\ producer \in {"readme", "docs_file"} => has_root
    /\ doc = [state |-> "none"]
    /\ CrawlUnused
    /\ GitHubUnused

ScrapePageReadTheDocs ==
    /\ producer = "readthedocs" /\ doc.state = "none"
    /\ doc' = scrape_page_readthedocs(fetched, has_root)
    /\ UNCHANGED <<producer, fetched, has_root, crawlVars, ghVars>>

ScrapePageWebsite ==
    /\ producer = "website" /\ doc.state = "none"
    /\ doc' = scrape_page_website(fetched, has_root)
    /\ UNCHANGED <<producer, fetched, has_root, crawlVars, ghVars>>

ReadmeDocument ==
    /\ producer = "readme" /\ doc.state = "none"
    /\ doc' = download_text(fetched)
    /\ UNCHANGED <<producer, fetched, has_root, crawlVars, ghVars>>

DocsFileDocument ==
    /\ producer = "docs_file" /\ doc.state = "none"
    /\ doc' = download_text(fetched)
    /\ UNCHANGED <<producer, fetched, has_root, crawlVars, ghVars>>

ContentNext ==
    \/ ScrapePageReadTheDocs
    \/ ScrapePageWebsite
    \/ ReadmeDocument
    \/ DocsFileDocument

SpecContent == ContentInit /\ [][ContentNext]_vars

(***************************************************************************)
(* Properties of Document.content.                                         *)
(***************************************************************************)
HasRun(s, k) ==
    \E i \in 1..(Len(s) - k + 1) : \A j \in i..(i + k - 1) : s[j] = NL

FiveNewlines == << Ch, NL, NL, NL, NL, NL, Ch >>

TwoNewlines == << Ch, NL, NL, Ch >>

\* C7 as stated: no Document of any ingester has three newlines in a row,
\* and a text with five newlines in a row ends up with two.
C7_AsStated ==
    doc.state = "document" =>
       /\ ~HasRun(doc.content, 3)
       /\ fetched = FiveNewlines => doc.content = TwoNewlines

\* C7 amended: no Document of the two crawlers has three newlines in a
\* row, and five newlines in a row inside one text node end up as two; a
\* readme or docs-file Document carries the downloaded text unchanged.
C7_Amended ==
    doc.state = "document" =>
       IF producer \in {"readthedocs", "website"}
       THEN /\ ~HasRun(doc.content, 3)
            /\ (fetched = FiveNewlines /\ has_root) => doc.content = TwoNewlines
       ELSE doc.content = fetched

\* a scraped page whose text held five newlines in a row
C7_Witness ==
    /\ doc.state = "document"
    /\ producer = "readthedocs"
    /\ fetched = FiveNewlines
    /\ doc.content = TwoNewlines

\* C11 as stated: a fetched page without any content root (no body either)
\* raises nothing in either crawler and gives a Document whose content is
\* the empty string.
C11_AsStated ==
    (producer \in {"readthedocs", "website"} /\ ~has_root /\ doc.state # "none")
       => doc = Produced(<<>>)

=============================================================================
